---- MODULE Spec2Model ----
(***************************************************************************)
(* SnpHeatMap (src/main.py): the reader of the input tables                *)
(* (extract_data_from_table with greater_than_0_int_filter), their         *)
(* aggregation (compile_gene_snp), the construction of the species x       *)
(* SNP-count matrix (make_data_matrix), the accumulation of a row          *)
(* (generate_cumulative_list), and main, which drives them.                *)
(*                                                                         *)
(* Python values are represented as follows.                               *)
(*   dict            a function whose DOMAIN is the set of keys            *)
(*   list            a sequence                                            *)
(*   str (a cell)    a sequence of one-character strings                   *)
(*   int or None     a record [none |-> BOOLEAN, val |-> Int]              *)
(*   a call's result a record whose field status is "ok" or the name of    *)
(*                   the exception the call raised                         *)
(* The table the reader returns (dict gene -> cell) is the sequence of its *)
(* entries [gene, value] in insertion order.  The fold is given the cells  *)
(* of a table in that order, which is the order dict.items() yields; the   *)
(* gene of the i-th cell is its index i.                                   *)
(*                                                                         *)
(* Specifications:                                                         *)
(*   FoldSpec   compile_gene_snp called repeatedly on an empty aggregate   *)
(*   BuildSpec  make_data_matrix called on a given aggregate               *)
(*   CumSpec    generate_cumulative_list called on a given row             *)
(*   HeatSpec   make_heatmap called on a given cell                        *)
(*   ReadSpec   one iteration of main's loading loop on a given file       *)
(*   MainSpec   a run of main                                              *)
(***************************************************************************)
EXTENDS Integers, Sequences, FiniteSets, TLC

VARIABLES
    dict_of_number,   \* the aggregate {snp_count: {group: occurrences}} (all_snp in main)
    pc,               \* the position of the run (see each specification's actions)
    pre_fold,         \* the aggregate before the last fold call
    start,            \* the aggregate before the recorded fold calls
    calls,            \* the last (at most two) fold calls [group, genes_snp], oldest first
    nfolds,           \* number of fold calls so far
    call,             \* arguments of the last matrix build or accumulation
    ret,              \* its result
    params,           \* main's parameters (max_length, show_values and global_heatmap
                      \* are reassigned by main)
    output_dir,       \* the job's output directory: "absent", "empty" or "filled"
    disk,             \* the input files: name -> lines [gene, value] under the header
    locals,           \* main's local variables: a record with the fields
                      \*   todo         the part of list_of_files not yet reached
                      \*   files_dict   the table read from the last input file
                      \*   all_species  the species names
                      \*   data         the matrix
                      \*   x_legend     the column labels: None or a list of strings
                      \*   i            index (from 1) of the next row of the per-row loop
                      \*   r_           the answer to the confirmation prompt
    outputs,          \* the charts rendered so far, in order
    exit_code,        \* main's return value, None while it has not returned
    error             \* the exception main raised, "" if none

\* the variables of main that the direct calls of its functions leave alone
mainvars == <<params, output_dir, disk, locals, outputs, exit_code, error>>

vars == <<dict_of_number, pc, pre_fold, start, calls, nfolds, call, ret, params, output_dir,
          disk, locals, outputs, exit_code, error>>

----------------------------------------------------------------------------
(* Bounds of the model *)

\* longest table (number of genes) a fold call is given
MaxGenes == 2
\* number of fold calls in one run
MaxFolds == 3
\* largest SNP count among the keys of an aggregate given directly to a build
MaxSnp == 3
\* longest row given directly to generate_cumulative_list
MaxRowLen == 4
\* largest value in such a row
MaxCell == 2
\* longest file (lines under the header) given to the reader alone
MaxLines == 2
\* most digits of a cell value given directly to make_heatmap
MaxDigits == 24

\* columns of a header line
MaxColumns == 3

----------------------------------------------------------------------------
(* Python dictionaries and lists *)

EmptyDict == <<>>

DictSet(d, k, v) == [x \in (DOMAIN d) \cup {k} |-> IF x = k THEN v ELSE d[x]]

MinOf(S) == CHOOSE m \in S : \A x \in S : m <= x

RECURSIVE sorted(_)
sorted(S) == IF S = {} THEN <<>>
             ELSE LET m == MinOf(S) IN <<m>> \o sorted(S \ {m})

\* lst[:n] for n >= 0
Prefix(lst, n) == SubSeq(lst, 1, IF n < Len(lst) THEN n ELSE Len(lst))

\* [0] * n  (the empty list when n <= 0)
Zeros(n) == [i \in 1..(IF n > 0 THEN n ELSE 0) |-> 0]

\* lst[-1] = v on a non-empty list
SetLast(lst, v) == [lst EXCEPT ![Len(lst)] = v]

\* all sequences over S of length 0..n
SeqUpTo(S, n) == UNION {[1..k -> S] : k \in 0..n}

----------------------------------------------------------------------------
(* int(str) on the characters that occur in the model's cells *)

Digits == {"0", "1", "2", "3", "4", "5", "6", "7", "8", "9"}

DigitVal(c) ==
    CASE c = "0" -> 0 [] c = "1" -> 1 [] c = "2" -> 2 [] c = "3" -> 3
      [] c = "4" -> 4 [] c = "5" -> 5 [] c = "6" -> 6 [] c = "7" -> 7
      [] c = "8" -> 8 [] c = "9" -> 9

IsDigits(s) == Len(s) > 0 /\ \A i \in 1..Len(s) : s[i] \in Digits

RECURSIVE DigitsVal(_)
DigitsVal(s) == IF s = <<>> THEN 0
                ELSE 10 * DigitsVal(SubSeq(s, 1, Len(s) - 1)) + DigitVal(s[Len(s)])

\* the characters int() strips from both ends
Whitespace == {" ", "\n"}

RECURSIVE lstrip(_)
lstrip(s) == IF s # <<>> /\ Head(s) \in Whitespace THEN lstrip(Tail(s)) ELSE s

RECURSIVE rstrip(_)
rstrip(s) == IF s # <<>> /\ s[Len(s)] \in Whitespace
             THEN rstrip(SubSeq(s, 1, Len(s) - 1)) ELSE s

\* an optionally signed run of digits
IntLiteral(s) ==
    IF IsDigits(s) THEN [ok |-> TRUE, val |-> DigitsVal(s)]
    ELSE IF Len(s) > 1 /\ s[1] \in {"-", "+"} /\ IsDigits(Tail(s))
         THEN [ok |-> TRUE, val |-> IF s[1] = "-" THEN -DigitsVal(Tail(s))
                                                  ELSE DigitsVal(Tail(s))]
         ELSE [ok |-> FALSE, val |-> 0]

\* int(s): [ok |-> TRUE, val |-> n], or ok = FALSE when int raises ValueError
PyInt(s) == IntLiteral(lstrip(rstrip(s)))

\* str(n) for an integer n >= 0
DigitOf(n) ==
    CASE n = 0 -> "0" [] n = 1 -> "1" [] n = 2 -> "2" [] n = 3 -> "3" [] n = 4 -> "4"
      [] n = 5 -> "5" [] n = 6 -> "6" [] n = 7 -> "7" [] n = 8 -> "8" [] n = 9 -> "9"

RECURSIVE str(_)
str(n) == IF n < 10 THEN <<DigitOf(n)>> ELSE Append(str(n \div 10), DigitOf(n % 10))

----------------------------------------------------------------------------
(* compile_gene_snp *)

\* "if snp_count not in dict_of_number: dict_of_number[snp_count] = {}" without its test
EnsureBucketAlways(d, snp_count) == DictSet(d, snp_count, EmptyDict)

EnsureBucket(d, snp_count) ==
    IF snp_count \notin DOMAIN d THEN DictSet(d, snp_count, EmptyDict) ELSE d

EnsureGroup(d, snp_count, group) ==
    IF group \notin DOMAIN d[snp_count]
    THEN DictSet(d, snp_count, DictSet(d[snp_count], group, 0))
    ELSE d

\* the increment as the else branch of the "group not in" test
IncrementIfPresent(d, snp_count, group) ==
    IF d[snp_count][group] = 0 THEN d
    ELSE DictSet(d, snp_count, DictSet(d[snp_count], group, d[snp_count][group] + 1))

\* the increment by 2
IncrementTwice(d, snp_count, group) ==
    DictSet(d, snp_count, DictSet(d[snp_count], group, d[snp_count][group] + 2))

Increment(d, snp_count, group) ==
    DictSet(d, snp_count, DictSet(d[snp_count], group, d[snp_count][group] + 1))

\* one iteration of the loop, for a count already converted
CountGene(d, snp_count, group) ==
    Increment(EnsureGroup(EnsureBucket(d, snp_count), snp_count, group), snp_count, group)

\* the loop from entry i on; the dict is mutated in place, so a ValueError leaves
\* the entries counted so far in it
RECURSIVE CompileFrom(_, _, _, _)
CompileFrom(genes_snp, d, group, i) ==
    IF i > Len(genes_snp) THEN [status |-> "ok", dict |-> d]
    ELSE LET n == PyInt(genes_snp[i])
         IN IF ~n.ok THEN [status |-> "ValueError", dict |-> d]
            ELSE CompileFrom(genes_snp, CountGene(d, n.val, group), group, i + 1)

compile_gene_snp(genes_snp, d, group) == CompileFrom(genes_snp, d, group, 1)

----------------------------------------------------------------------------
(* make_data_matrix *)

None == [none |-> TRUE, val |-> 0]
Some(n) == [none |-> FALSE, val |-> n]

Raise(exception) == [status |-> exception, data |-> <<>>, x_legend |-> <<>>]
Return(data, x_legend) == [status |-> "ok", data |-> data, x_legend |-> x_legend]

\* sorted_x_values[-max_length:], the largest counts
TruncateKeepLargest(sorted_x_values, max_length) ==
    IF ~max_length.none /\ Len(sorted_x_values) >= max_length.val
    THEN SubSeq(sorted_x_values, Len(sorted_x_values) - max_length.val + 1,
                Len(sorted_x_values))
    ELSE sorted_x_values

\* "if max_length is not None and len(sorted_x_values) >= max_length: ...[:max_length]"
Truncate(sorted_x_values, max_length) ==
    IF ~max_length.none /\ Len(sorted_x_values) >= max_length.val
    THEN Prefix(sorted_x_values, max_length.val)
    ELSE sorted_x_values

\* the gap filling applied whatever simplified is
MissingAlwaysGap(simplified, x_values, last_x_value) == Zeros(x_values - last_x_value)

\* no gap filling at all
MissingNeverGap(simplified, x_values, last_x_value) == <<0>>

\* missing_x_values: [0], times (x_values - last_x_value) when simplified is False
MissingXValues(simplified, x_values, last_x_value) ==
    IF simplified = FALSE THEN Zeros(x_values - last_x_value) ELSE <<0>>

\* the rows taken in the reverse order of the groups
GroupAtReversed(groups, i) == groups[Len(groups) - i + 1]

\* group_name of "for i, group_name in enumerate(groups)" (i from 1 here)
GroupAt(groups, i) == groups[i]

\* the inner loop over the groups, from row i on, for one snp count;
\* data[i][-1] on an empty row raises IndexError
RECURSIVE FillGroups(_, _, _, _, _)
FillGroups(data, groups, missing_x_values, group_at_this_position, i) ==
    IF i > Len(groups) THEN [status |-> "ok", data |-> data]
    ELSE LET extended == data[i] \o missing_x_values
             group_name == GroupAt(groups, i)
         IN IF group_name \in DOMAIN group_at_this_position
            THEN IF extended = <<>>
                 THEN [status |-> "IndexError", data |-> data]
                 ELSE FillGroups(
                        [data EXCEPT ![i] =
                            SetLast(extended, group_at_this_position[group_name])],
                        groups, missing_x_values, group_at_this_position, i + 1)
            ELSE FillGroups([data EXCEPT ![i] = extended],
                            groups, missing_x_values, group_at_this_position, i + 1)

\* the outer loop over sorted_x_values, from position k on
RECURSIVE FillData(_, _, _, _, _, _, _)
FillData(compiled_dict, groups, simplified, sorted_x_values, k, data, last_x_value) ==
    IF k > Len(sorted_x_values) THEN [status |-> "ok", data |-> data]
    ELSE LET x_values == sorted_x_values[k]
             row == FillGroups(data, groups,
                               MissingXValues(simplified, x_values, last_x_value),
                               compiled_dict[x_values], 1)
         IN IF row.status # "ok" THEN row
            ELSE FillData(compiled_dict, groups, simplified, sorted_x_values,
                          k + 1, row.data, x_values)

\* list(range(1, sorted_x_values[-1])), one label short
LegendOneShort(simplified, sorted_x_values) ==
    IF simplified THEN sorted_x_values
    ELSE [i \in 1..(sorted_x_values[Len(sorted_x_values)] - 1) |-> i]

\* the returned legend: sorted_x_values, or list(range(1, sorted_x_values[-1] + 1))
Legend(simplified, sorted_x_values) ==
    IF simplified THEN sorted_x_values
    ELSE [i \in 1..sorted_x_values[Len(sorted_x_values)] |-> i]

\* groups is [group, *groups]; "max_length <= 0" raises TypeError on None
\* the columns of a build without limit, cut to max_length columns afterwards
DensifyThenTruncate(compiled_dict, groups, simplified, max_length) ==
    IF max_length.none THEN Raise("TypeError")
    ELSE LET sorted_x_values == sorted(DOMAIN compiled_dict)
             filled == FillData(compiled_dict, groups, simplified, sorted_x_values, 1,
                                [i \in 1..Len(groups) |-> <<>>], 0)
             labels == Legend(simplified, sorted_x_values)
             width == IF max_length.val > 0 /\ max_length.val < Len(labels)
                      THEN max_length.val ELSE Len(labels)
         IN IF filled.status # "ok" THEN Raise(filled.status)
            ELSE IF ~simplified /\ sorted_x_values = <<>> THEN Raise("IndexError")
            ELSE Return([i \in 1..Len(groups) |-> SubSeq(filled.data[i], 1, width)],
                        SubSeq(labels, 1, width))

make_data_matrix(compiled_dict, groups, simplified, max_length) ==
    IF max_length.none THEN Raise("TypeError")
    ELSE LET limit == IF max_length.val <= 0 THEN None ELSE max_length
             sorted_x_values == Truncate(sorted(DOMAIN compiled_dict), limit)
             filled == FillData(compiled_dict, groups, simplified, sorted_x_values, 1,
                                [i \in 1..Len(groups) |-> <<>>], 0)
         IN IF filled.status # "ok" THEN Raise(filled.status)
            ELSE IF ~simplified /\ sorted_x_values = <<>> THEN Raise("IndexError")
            ELSE Return(filled.data, Legend(simplified, sorted_x_values))

\* main, from its max_length test to its call of make_data_matrix:
\* "if max_length <= 0: max_length = None", "if not all_species: return 2"
main_matrix(all_snp, all_species, simplified, max_length) ==
    IF max_length.none THEN Raise("TypeError")
    ELSE LET limit == IF max_length.val <= 0 THEN None ELSE max_length
         IN IF all_species = <<>> THEN Raise("return 2")
            ELSE make_data_matrix(all_snp, all_species, simplified, limit)

----------------------------------------------------------------------------
(* generate_cumulative_list *)

\* cumulative_list.reverse() left out
ReverseForgotten(lst) == lst

\* the accumulation without "tot +=": each value appended as it is
RECURSIVE AccumulateNoTotal(_, _, _, _)
AccumulateNoTotal(list_of_numbers, index_range, tot, cumulative_list) ==
    IF index_range = <<>> THEN cumulative_list
    ELSE LET i == Head(index_range)
             v == list_of_numbers[IF i < 0 THEN Len(list_of_numbers) + i + 1 ELSE i + 1]
         IN AccumulateNoTotal(list_of_numbers, Tail(index_range), tot,
                              Append(cumulative_list, v))

\* range(0, n) whatever reversed_ is
IndexRangeForward(n, reversed_) == [k \in 1..n |-> k - 1]

\* lst[i] with Python's indices: 0-based, negative ones counted from the end
PyIndex(lst, i) == lst[IF i < 0 THEN Len(lst) + i + 1 ELSE i + 1]

\* list(range(-1, -(n + 1), -1)) when reversed_, else range(0, n)
IndexRange(n, reversed_) == [k \in 1..n |-> IF reversed_ THEN -k ELSE k - 1]

\* lst.reverse()
Reverse(lst) == [k \in 1..Len(lst) |-> lst[Len(lst) + 1 - k]]

\* "for i in index_range: tot += list_of_numbers[i]; cumulative_list.append(tot)"
RECURSIVE Accumulate(_, _, _, _)
Accumulate(list_of_numbers, index_range, tot, cumulative_list) ==
    IF index_range = <<>> THEN cumulative_list
    ELSE LET new_tot == tot + PyIndex(list_of_numbers, Head(index_range))
         IN Accumulate(list_of_numbers, Tail(index_range), new_tot,
                       Append(cumulative_list, new_tot))

\* the accumulation from the first element whatever reversed_ is
CumulativeForward(list_of_numbers, reversed_) ==
    Accumulate(list_of_numbers, IndexRange(Len(list_of_numbers), FALSE), 0, <<>>)

generate_cumulative_list(list_of_numbers, reversed_) ==
    LET cumulative_list == Accumulate(list_of_numbers,
                                      IndexRange(Len(list_of_numbers), reversed_), 0, <<>>)
    IN IF reversed_ THEN Reverse(cumulative_list) ELSE cumulative_list

----------------------------------------------------------------------------
(* extract_data_from_table with greater_than_0_int_filter *)

\* the filter with ">= 0"
NotNegativeFilter(parsed_line) ==
    LET n == PyInt(parsed_line.value)
    IN IF n.ok THEN n.val >= 0 ELSE FALSE

\* "try: return int(dictionary[key]) > 0; except ValueError: return False"
greater_than_0_int_filter(parsed_line) ==
    LET n == PyInt(parsed_line.value)
    IN IF n.ok THEN n.val > 0 ELSE FALSE

\* data[key] = value on an insertion-ordered dict held as a sequence of [gene, value]
DataSet(table, key, value) ==
    IF \E j \in 1..Len(table) : table[j].gene = key
    THEN [j \in 1..Len(table) |-> IF table[j].gene = key
                                  THEN [gene |-> key, value |-> value] ELSE table[j]]
    ELSE Append(table, [gene |-> key, value |-> value])

\* the loop over the lines under the header: a line the filter refuses is skipped
RECURSIVE ExtractFrom(_, _, _)
ExtractFrom(lines, k, table) ==
    IF k > Len(lines) THEN table
    ELSE LET parsed_line == lines[k]
             func_result == greater_than_0_int_filter(parsed_line)
         IN IF func_result = FALSE THEN ExtractFrom(lines, k + 1, table)
            ELSE ExtractFrom(lines, k + 1,
                             DataSet(table, parsed_line.gene, parsed_line.value))

extract_data_from_table(lines) == ExtractFrom(lines, 1, <<>>)

\* line.split(separator) on a line held as its characters: the fields between
\* the separators, the empty ones kept
RECURSIVE SplitFrom(_, _, _, _)
SplitFrom(line, separator, k, field) ==
    IF k > Len(line) THEN <<field>>
    ELSE IF line[k] = separator
         THEN <<field>> \o SplitFrom(line, separator, k + 1, <<>>)
         ELSE SplitFrom(line, separator, k + 1, Append(field, line[k]))

split(line, separator) == SplitFrom(line, separator, 1, <<>>)

\* "x in legend"
Contains(legend, x) == \E j \in 1..Len(legend) : legend[j] = x

\* the legend taken from the first non-empty line (lines 169-178): the line is
\* split, key and value are looked up in the fields as split, and only then is
\* the newline that ends the last field removed; legend[-1][-1] on an empty last
\* field raises IndexError
ReadLegend(line, key, value, separator) ==
    LET legend == split(line, separator)
        last == legend[Len(legend)]
    IN IF ~Contains(legend, key) \/ ~Contains(legend, value)
       THEN [status |-> "ValueError", legend |-> legend]
       ELSE IF last = <<>>
            THEN [status |-> "IndexError", legend |-> legend]
            ELSE IF last[Len(last)] = "\n"
                 THEN [status |-> "ok",
                       legend |-> SetLast(legend, Prefix(last, Len(last) - 1))]
                 ELSE [status |-> "ok", legend |-> legend]

\* extract_data_from_table on a file given as its header line and the key and
\* value cells of the lines under it
ExtractWithLegend(header, lines, key, value, separator) ==
    LET legend == ReadLegend(header, key, value, separator)
    IN IF legend.status = "ok"
       THEN [status |-> "ok", data |-> extract_data_from_table(lines)]
       ELSE [status |-> legend.status, data |-> <<>>]

\* files_dict.items() as compile_gene_snp walks it: the values in insertion order
Values(table) == [j \in 1..Len(table) |-> table[j].value]

----------------------------------------------------------------------------
(* main: file names, the prompt's answer, the column labels *)

\* files[0]
FirstChar(files) == IF files = ".h" THEN "." ELSE files

\* the file names of the model in the order of str's "<"
NameOrder == <<".h", "E", "H">>

\* all_species.sort() (os.listdir gives no name twice)
SortNames(names) ==
    SelectSeq(NameOrder, LAMBDA n : \E j \in 1..Len(names) : names[j] = n)

\* the answer compared as typed
LowerForgotten(s) == s

\* c.lower() on the letters that occur in the model's answers
LowerChar(c) ==
    CASE c = "Y" -> "y" [] c = "E" -> "e" [] c = "S" -> "s"
      [] c = "T" -> "t" [] c = "R" -> "r" [] c = "U" -> "u" [] OTHER -> c

lower(s) == [j \in 1..Len(s) |-> LowerChar(s[j])]

\* ("y", "ye", "yes", "t", "tr", "tru", "true")
Affirmative ==
    { <<"y">>, <<"y", "e">>, <<"y", "e", "s">>,
      <<"t">>, <<"t", "r">>, <<"t", "r", "u">>, <<"t", "r", "u", "e">> }

\* "r_.lower() not in (...)" is false
Confirmed(answer) == lower(answer) \in Affirmative

\* the length compared with the first label
LengthIsFirstLabel(labels) == Len(labels) = labels[1]

\* "if len(x_legend) == x_legend[-1]"
IsContinue(labels) == Len(labels) = labels[Len(labels)]

\* [str(item) for item in x_legend]
StrLabels(labels) == [j \in 1..Len(labels) |-> str(labels[j])]

----------------------------------------------------------------------------
(* make_heatmap: the text written in the cells *)
(* A cell value is held as the digits str(data[i][j]) gives: the values that     *)
(* reach the last unit exceed the integers of the model checker.                 *)

\* s[a:b] for 0 <= a, 0 <= b
Slice(s, a, b) == SubSeq(s, a + 1, IF b < Len(s) THEN b ELSE Len(s))

\* ['', 'k', 'M', 'G', 'T', 'P']
units == <<"", "k", "M", "G", "T", "P">>

\* the decimal digits of n zeros
ZeroDigits(n) == [j \in 1..n |-> "0"]

\* str(round(value, round_pos)) for round_pos = -k <= 0 on a value of more than k
\* digits: round half to even at the k-th digit from the right
RoundDigits(str_data, k) ==
    IF k = 0 THEN str_data
    ELSE LET kept == DigitsVal(SubSeq(str_data, 1, Len(str_data) - k))
             dropped == SubSeq(str_data, Len(str_data) - k + 1, Len(str_data))
             first == DigitVal(dropped[1])
             rest_is_zero == \A j \in 2..k : dropped[j] = "0"
             up == \/ first > 5
                   \/ first = 5 /\ ~rest_is_zero
                   \/ first = 5 /\ rest_is_zero /\ kept % 2 = 1
         IN str(IF up THEN kept + 1 ELSE kept) \o ZeroDigits(k)

\* the body of the loop over the cells (lines 622-645): the text of one cell
CellText(value) ==
    LET data_length == Len(value)
        data_pos == data_length % 3
        data_units == data_length \div 3
        round_pos == IF data_length - 3 > 0 THEN data_length - 3 ELSE 0
        str_data == RoundDigits(value, round_pos)
        Unit(index) == IF units[index + 1] = "" THEN <<>> ELSE <<units[index + 1]>>
    IN IF data_units - 1 <= Len(units)
       THEN IF data_units = 0
            THEN [status |-> "ok", text |-> str_data \o <<"\n">>]
            ELSE IF data_pos = 0
            THEN IF data_units - 1 >= Len(units)
                 THEN [status |-> "IndexError", text |-> <<>>]
                 ELSE [status |-> "ok",
                       text |-> Slice(str_data, 0, 3) \o <<"\n">> \o Unit(data_units - 1)]
            ELSE IF data_units >= Len(units)
                 THEN [status |-> "IndexError", text |-> <<>>]
                 ELSE [status |-> "ok",
                       text |-> Slice(str_data, 0, data_pos) \o <<",">>
                                \o Slice(str_data, data_pos, 3) \o <<"\n">>
                                \o Unit(data_units)]
       ELSE [status |-> "ValueError", text |-> <<>>]

\* the cells of a matrix in the order of the two loops
CellsOf(data) ==
    LET num_cols == Len(data[1])
    IN [n \in 1..(Len(data) * num_cols) |->
           data[((n - 1) \div num_cols) + 1][((n - 1) % num_cols) + 1]]

\* font_size (lines 614-617)
FontSize(contain_number, num_rows, num_cols) ==
    IF contain_number.val < 0
    THEN LET height == IF num_rows + 1 > 4 THEN num_rows + 1 ELSE 4
             smallest == IF num_cols + 1 < height THEN num_cols + 1 ELSE height
         IN IF 12 < smallest * 12 THEN 12 ELSE smallest * 12
    ELSE contain_number.val

\* make_heatmap on the matrix of the digits of each cell: the texts of the cells
\* row by row, no text when contain_number is None; the first cell that raises
\* ends the call
make_heatmap(data, contain_number) ==
    IF contain_number.none
    THEN [status |-> "ok", texts |-> <<>>, font_size |-> None]
    ELSE LET cells == CellsOf(data)
             texts == [n \in 1..Len(cells) |-> CellText(cells[n])]
             failed == {n \in 1..Len(cells) : texts[n].status # "ok"}
         IN IF failed = {}
            THEN [status |-> "ok",
                  texts |-> [n \in 1..Len(cells) |-> texts[n].text],
                  font_size |-> Some(FontSize(contain_number, Len(data), Len(data[1])))]
            ELSE [status |-> texts[MinOf(failed)].status, texts |-> <<>>,
                  font_size |-> None]

\* str of every cell of a matrix of integers
StrMatrix(data) == [r \in 1..Len(data) |-> [j \in 1..Len(data[r]) |-> str(data[r][j])]]

----------------------------------------------------------------------------
(* Inputs *)

\* group names given to fold calls
FoldGroups == {"A", "E"}

\* cells of the SNP column: "3", "05" (int gives 5), and "x" (int raises)
RawCounts == {<<"3">>, <<"0", "5">>, <<"x">>}

\* the table {g1: 3, g2: 3, g3: 5}
ExampleTable == << <<"3">>, <<"3">>, <<"0", "5">> >>

Tables == SeqUpTo(RawCounts, MaxGenes) \cup {ExampleTable}

\* group lists given to a matrix build ("H" is in no folded table)
BuildGroups == {"E", "H"}
GroupLists == {<<"E">>, <<"H">>, <<"E", "H">>, <<"H", "E">>}

\* max_length: None, values that are ignored (<= 0), and limits below and above
\* the number of distinct counts
MaxLengths == {None} \cup {Some(n) : n \in -1..(MaxSnp + 2)}

\* the number of genes an aggregate drawn for a build gives group s at count k
\* (distinct per cell, so that a value read from the wrong cell shows)
GenesAt(k, s) == IF s = "E" THEN k + 1 ELSE 2 * k + 6

\* the aggregates over the counts 0..MaxSnp: every count absent, or present with
\* a non-empty set of groups
Buckets == {EmptyDict} \cup {[s \in G |-> 0] : G \in (SUBSET BuildGroups) \ {{}}}
PatternAggregates ==
    { [k \in {c \in 0..MaxSnp : p[c] # EmptyDict} |->
          [s \in DOMAIN p[k] |-> GenesAt(k, s)]] : p \in [0..MaxSnp -> Buckets] }

\* {1: {E: 5}, 2: {E: 3, H: 4}, 4: {E: 1, H: 1}}
ExampleAggregate ==
    (1 :> ("E" :> 5)) @@ (2 :> ("E" :> 3 @@ "H" :> 4)) @@ (4 :> ("E" :> 1 @@ "H" :> 1))

\* the compiled_dict of make_data_matrix's docstring (lines 269-273)
DocAggregate == ExampleAggregate @@ (3 :> ("H" :> 2))

Aggregates == PatternAggregates \cup {ExampleAggregate, DocAggregate}

\* the row of generate_cumulative_list's docstring (line 344)
ExampleRow == <<0, 5, 6, 1>>

\* rows given directly to generate_cumulative_list
Rows == SeqUpTo(0..MaxCell, MaxRowLen) \cup {ExampleRow}

NoCall == [fn |-> "none", groups |-> <<>>, simplified |-> TRUE, max_length |-> None]
NoRet == [status |-> "none", data |-> <<>>, x_legend |-> <<>>]

\* the command line's default for max_length (line 77)
DefaultMaxLength == 20

\* main's max_length: None (main's default), 0 (ignored), limits at or below the
\* number of distinct counts, and the command line's default
MainMaxLengths == {None, Some(0), Some(1), Some(2), Some(DefaultMaxLength)}

\* a font size given as show_values (contain_number)
SomeFontSize == 8

\* show_values: the command line's default (None), main's default (-1), 0 and a
\* font size
ShowValues == {None, Some(-1), Some(0), Some(SomeFontSize)}

\* the chart switches: none (main then forces the global heatmap), the bar charts,
\* the per-species heatmaps, everything
ChartChoices ==
    { [quantitative_barchart |-> q, cumulative_barchart |-> q,
       cumulative_heatmap |-> u, global_heatmap |-> q /\ u] : q, u \in BOOLEAN }

\* main's parameters: show_values is varied with the other defaults of the
\* command line, everything else with show_values at main's default
MainParams ==
    { p \in [simplified : BOOLEAN, max_length : MainMaxLengths, show_values : ShowValues,
             output_warning : BOOLEAN, sort_by_name : BOOLEAN,
             quantitative_barchart : BOOLEAN, cumulative_barchart : BOOLEAN,
             cumulative_heatmap : BOOLEAN, global_heatmap : BOOLEAN] :
        /\ \E c \in ChartChoices :
              /\ p.quantitative_barchart = c.quantitative_barchart
              /\ p.cumulative_barchart = c.cumulative_barchart
              /\ p.cumulative_heatmap = c.cumulative_heatmap
              /\ p.global_heatmap = c.global_heatmap
        /\ \/ p.show_values = Some(-1)
           \/ /\ p.max_length = Some(DefaultMaxLength)
              /\ p.output_warning
              /\ p.sort_by_name }

\* a line under the header, parsed: the name column and the SNP column
Line(gene, value) == [gene |-> gene, value |-> value]

\* input files: empty; no line qualifies; one gene; two genes with the same count
\* (the second cell ends the line); a gene named twice, the second time with a
\* value the filter refuses; counts 1, 2, 4; the same with a gene named twice
MainFiles ==
    { <<>>,
      << Line("g1", <<"0">>), Line("g2", <<"x">>), Line("g3", <<"-", "1">>) >>,
      << Line("g1", <<"1">>) >>,
      << Line("g1", <<"2">>), Line("g2", <<"2", "\n">>) >>,
      << Line("g1", <<"1">>), Line("g2", <<"2">>), Line("g1", <<"x">>) >>,
      << Line("g1", <<"1">>), Line("g2", <<"2">>), Line("g3", <<"4">>) >>,
      << Line("g1", <<"1">>), Line("g2", <<"2">>), Line("g3", <<"4">>),
         Line("g1", <<"4">>) >> }

\* os.listdir(path): no file, a hidden file only, one or two species
Listings == { <<>>, <<".h">>, <<"E">>, <<"H", "E">>, <<"E", ".h", "H">> }

\* the content of the files of a listing (the hidden file holds a qualifying line)
Disks(list_of_files) ==
    { d \in [{list_of_files[j] : j \in 1..Len(list_of_files)} -> MainFiles] :
        ".h" \in DOMAIN d => d[".h"] = << Line("g1", <<"1">>) >> }

\* answers typed at the confirmation prompt
Answers ==
    { <<"y">>, <<"Y", "E", "S">>, <<"t", "R", "u">>,
      <<"n">>, <<>>, <<"y", "e", "a", "h">> }

\* the cells of the SNP column of the files given to the reader alone
ReadCells == { <<"1">>, <<"2", "\n">>, <<"0">>, <<"-", "1">>, <<"x">>, <<>> }

ReadLines == { Line(gene, value) : gene \in {"g1", "g2"}, value \in ReadCells }

ReadFiles == SeqUpTo(ReadLines, MaxLines)

\* leading digits of the cell values: rounded down, a tie rounded down, a tie
\* rounded up, a power of ten, ties and nines that carry into a new digit
LeadingDigits ==
    { <<"1", "2", "3", "4">>, <<"1", "2", "4", "5">>, <<"1", "2", "3", "5">>,
      <<"1", "0", "0", "0">>, <<"9", "9", "9", "5">>, <<"9", "9", "9", "9">> }

\* a value of n digits: the first n leading digits, then the last one repeated for
\* the nines and zeros elsewhere
ValueOf(lead, n) ==
    [j \in 1..n |-> IF j <= Len(lead) THEN lead[j]
                    ELSE IF lead[Len(lead)] = "9" THEN "9" ELSE "0"]

\* cell values given directly to make_heatmap
CellValues ==
    { ValueOf(lead, n) : lead \in LeadingDigits, n \in 1..MaxDigits } \cup { <<"0">> }

\* contain_number: None, automatic size, values at and above 0
ContainNumbers == {None, Some(-1), Some(0), Some(SomeFontSize)}

\* the names of the key and value columns given to the reader, and its separator
name_column == <<"g">>
snp_column == <<"s">>
file_separator == "\t"

\* column names of a header: the key, the value, another column, an empty field
HeaderFields == { name_column, snp_column, <<"z">>, <<>> }

RECURSIVE Join(_, _)
Join(fields, separator) ==
    IF Len(fields) = 1 THEN fields[1]
    ELSE fields[1] \o <<separator>> \o Join(Tail(fields), separator)

\* first non-empty lines: one to MaxColumns fields, with and without the newline
\* at the end ("" and "\n" are skipped by the reader as empty lines)
Headers ==
    { Join(fields, file_separator) \o ending :
        fields \in UNION { [1..n -> HeaderFields] : n \in 1..MaxColumns },
        ending \in { <<>>, <<"\n">> } } \ { <<>>, <<"\n">> }

\* the lines under the header
TableBodies == { lines \in SeqUpTo(ReadLines, 1) : TRUE }

NoLocals ==
    [todo |-> <<>>, files_dict |-> <<>>, all_species |-> <<>>, data |-> <<>>,
     x_legend |-> None, i |-> 0, r_ |-> <<>>]

\* main's defaults (line 883), after main's own adjustments (lines 943-953)
DefaultParams ==
    [simplified |-> TRUE, max_length |-> Some(DefaultMaxLength), show_values |-> Some(-1),
     output_warning |-> TRUE, sort_by_name |-> TRUE, quantitative_barchart |-> FALSE,
     cumulative_barchart |-> FALSE, cumulative_heatmap |-> FALSE, global_heatmap |-> TRUE]

\* main is not running
MainIdle ==
    /\ params = DefaultParams
    /\ output_dir = "absent"
    /\ disk = EmptyDict
    /\ locals = NoLocals
    /\ outputs = <<>>
    /\ exit_code = None
    /\ error = ""

----------------------------------------------------------------------------
(* The state machine *)

\* the start of main's loading loop: the aggregate is empty
Init ==
    /\ dict_of_number = EmptyDict
    /\ pc = "fold"
    /\ pre_fold = EmptyDict
    /\ start = EmptyDict
    /\ calls = <<>>
    /\ nfolds = 0
    /\ call = NoCall
    /\ ret = NoRet
    /\ MainIdle

\* a matrix build of a given aggregate
InitBuild ==
    /\ dict_of_number \in Aggregates
    /\ pc = "fold"
    /\ pre_fold = EmptyDict
    /\ start = EmptyDict
    /\ calls = <<>>
    /\ nfolds = 0
    /\ call = NoCall
    /\ ret = NoRet
    /\ MainIdle

\* all_snp = compile_gene_snp(files_dict, all_snp, group=...)
FoldCall ==
    /\ pc = "fold"
    /\ nfolds < MaxFolds
    /\ \E group \in FoldGroups, genes_snp \in Tables :
         LET r == compile_gene_snp(genes_snp, dict_of_number, group)
             c == [group |-> group, genes_snp |-> genes_snp]
         IN /\ dict_of_number' = r.dict
            /\ pc' = IF r.status = "ok" THEN "fold" ELSE "raised"
            /\ calls' = IF Len(calls) < 2 THEN Append(calls, c) ELSE <<calls[2], c>>
            /\ start' = IF Len(calls) < 2 THEN start ELSE pre_fold
    /\ pre_fold' = dict_of_number
    /\ nfolds' = nfolds + 1
    /\ UNCHANGED <<call, ret>>
    /\ UNCHANGED mainvars

\* make_data_matrix(compiled_dict, *groups, simplified=..., max_length=...)
BuildCall ==
    /\ pc = "fold"
    /\ \E groups \in GroupLists, simplified \in BOOLEAN, max_length \in MaxLengths :
         /\ call' = [fn |-> "make_data_matrix", groups |-> groups,
                     simplified |-> simplified, max_length |-> max_length]
         /\ ret' = make_data_matrix(dict_of_number, groups, simplified, max_length)
    /\ pc' = "built"
    /\ UNCHANGED <<dict_of_number, pre_fold, start, calls, nfolds>>
    /\ UNCHANGED mainvars

\* main, from its max_length test to the matrix it gets
MainCall ==
    /\ pc = "fold"
    /\ \E all_species \in GroupLists \cup {<<>>}, simplified \in BOOLEAN,
          max_length \in MaxLengths :
         /\ call' = [fn |-> "main", groups |-> all_species,
                     simplified |-> simplified, max_length |-> max_length]
         /\ ret' = main_matrix(dict_of_number, all_species, simplified, max_length)
    /\ pc' = "built"
    /\ UNCHANGED <<dict_of_number, pre_fold, start, calls, nfolds>>
    /\ UNCHANGED mainvars

\* a call of generate_cumulative_list on a given row
InitCum ==
    /\ dict_of_number = EmptyDict
    /\ pc = "row"
    /\ pre_fold = EmptyDict
    /\ start = EmptyDict
    /\ calls = <<>>
    /\ nfolds = 0
    /\ \E list_of_numbers \in Rows, reversed_ \in BOOLEAN :
         call = [fn |-> "generate_cumulative_list",
                 list_of_numbers |-> list_of_numbers, reversed_ |-> reversed_]
    /\ ret = NoRet
    /\ MainIdle

\* generate_cumulative_list(list_of_numbers, reversed_=...)
CumCall ==
    /\ pc = "row"
    /\ ret' = [status |-> "ok",
               list |-> generate_cumulative_list(call.list_of_numbers, call.reversed_)]
    /\ pc' = "summed"
    /\ UNCHANGED <<dict_of_number, pre_fold, start, calls, nfolds, call>>
    /\ UNCHANGED mainvars

\* the same call on the list the first call returned
CumAgain ==
    /\ pc = "summed"
    /\ call' = [call EXCEPT !.list_of_numbers = ret.list]
    /\ ret' = [status |-> "ok",
               list |-> generate_cumulative_list(ret.list, call.reversed_)]
    /\ pc' = "summed twice"
    /\ UNCHANGED <<dict_of_number, pre_fold, start, calls, nfolds>>
    /\ UNCHANGED mainvars

\* a run of main: parameters, the output directory, the input directory
InitMain ==
    /\ dict_of_number = EmptyDict
    /\ pc = "main"
    /\ pre_fold = EmptyDict
    /\ start = EmptyDict
    /\ calls = <<>>
    /\ nfolds = 0
    /\ call = NoCall
    /\ ret = NoRet
    /\ params \in MainParams
    /\ output_dir \in {"absent", "empty", "filled"}
    /\ \E list_of_files \in Listings :
         /\ locals = [NoLocals EXCEPT !.todo = list_of_files]
         /\ disk \in Disks(list_of_files)
    /\ outputs = <<>>
    /\ exit_code = None
    /\ error = ""

\* main at its loading loop with one file to read
InitRead ==
    /\ dict_of_number = EmptyDict
    /\ pc = "load"
    /\ pre_fold = EmptyDict
    /\ start = EmptyDict
    /\ calls = <<>>
    /\ nfolds = 0
    /\ call = NoCall
    /\ ret = NoRet
    /\ params = DefaultParams
    /\ output_dir = "empty"
    /\ locals = [NoLocals EXCEPT !.todo = <<"E">>]
    /\ \E lines \in ReadFiles : disk = ("E" :> lines)
    /\ outputs = <<>>
    /\ exit_code = None
    /\ error = ""

\* main up to the confirmation prompt (lines 936-997)
MainEnter ==
    /\ pc = "main"
    /\ IF params.max_length.none \/ params.show_values.none
       THEN /\ pc' = "raised"
            /\ error' = "TypeError"
            /\ UNCHANGED <<params, output_dir>>
       ELSE /\ params' = [params EXCEPT
                  !.max_length = IF @.val <= 0 THEN None ELSE @,
                  !.show_values = IF @.val <= 0 THEN Some(-1) ELSE @,
                  !.global_heatmap = @ \/ ~(params.quantitative_barchart
                                            \/ params.cumulative_barchart
                                            \/ params.cumulative_heatmap)]
            /\ output_dir' = IF output_dir = "absent" THEN "empty" ELSE output_dir
            /\ pc' = IF output_dir = "filled" /\ params.output_warning
                     THEN "input" ELSE "load"
            /\ error' = error
    /\ UNCHANGED <<dict_of_number, pre_fold, start, calls, nfolds, call, ret, disk, locals,
                   outputs, exit_code>>

\* r_ = input(...) and the test of the answer (lines 997-1001)
Answer ==
    /\ pc = "input"
    /\ \E answer \in Answers :
         /\ locals' = [locals EXCEPT !.r_ = answer]
         /\ IF Confirmed(answer)
            THEN pc' = "load" /\ exit_code' = exit_code
            ELSE pc' = "done" /\ exit_code' = Some(1)
    /\ UNCHANGED <<dict_of_number, pre_fold, start, calls, nfolds, call, ret, params,
                   output_dir, disk, outputs, error>>

\* one iteration of "for files in list_of_files" (lines 1028-1041)
LoadFile ==
    /\ pc = "load"
    /\ locals.todo # <<>>
    /\ LET files == Head(locals.todo)
       IN IF FirstChar(files) = "."
          THEN /\ locals' = [locals EXCEPT !.todo = Tail(@)]
               /\ UNCHANGED <<dict_of_number, pc, error>>
          ELSE LET table == extract_data_from_table(disk[files])
                   r == compile_gene_snp(Values(table), dict_of_number, files)
               IN /\ locals' = [locals EXCEPT !.todo = Tail(@),
                                              !.files_dict = table,
                                              !.all_species = Append(@, files)]
                  /\ dict_of_number' = r.dict
                  /\ pc' = IF r.status = "ok" THEN "load" ELSE "raised"
                  /\ error' = IF r.status = "ok" THEN error ELSE r.status
    /\ UNCHANGED <<pre_fold, start, calls, nfolds, call, ret, params, output_dir, disk,
                   outputs, exit_code>>

\* the end of the loading loop: the sort, the test for species, the matrix and its
\* column labels (lines 1043-1060)
BuildMatrix ==
    /\ pc = "load"
    /\ locals.todo = <<>>
    /\ LET species == IF params.sort_by_name THEN SortNames(locals.all_species)
                      ELSE locals.all_species
       IN IF species = <<>>
          THEN /\ pc' = "done"
               /\ exit_code' = Some(2)
               /\ locals' = [locals EXCEPT !.all_species = species]
               /\ UNCHANGED <<call, ret, error>>
          ELSE LET r == make_data_matrix(dict_of_number, species, params.simplified,
                                         params.max_length)
               IN /\ call' = [fn |-> "make_data_matrix", groups |-> species,
                              simplified |-> params.simplified,
                              max_length |-> params.max_length]
                  /\ ret' = r
                  /\ exit_code' = exit_code
                  /\ IF r.status # "ok"
                     THEN /\ pc' = "raised"
                          /\ error' = r.status
                          /\ locals' = [locals EXCEPT !.all_species = species]
                     ELSE IF r.x_legend = <<>>
                     THEN /\ pc' = "raised"
                          /\ error' = "IndexError"
                          /\ locals' = [locals EXCEPT !.all_species = species,
                                                      !.data = r.data]
                     ELSE /\ pc' = "rows"
                          /\ error' = error
                          /\ locals' = [locals EXCEPT
                                 !.all_species = species,
                                 !.data = r.data,
                                 !.x_legend = IF IsContinue(r.x_legend) THEN None
                                              ELSE Some(StrLabels(r.x_legend)),
                                 !.i = 1]
    /\ UNCHANGED <<dict_of_number, pre_fold, start, calls, nfolds, params, output_dir, disk,
                   outputs>>

\* make_bar_char(values, x_legend=..., chart_name=...)
BarChart(chart, chart_name, values, labels) ==
    [chart |-> chart, name |-> chart_name, values |-> values, x_legend |-> labels]

\* make_heatmap(rows, y_legend=..., x_legend=..., contain_number=...)
Heatmap(chart, y_legend, rows, labels, contain_number) ==
    LET drawn == make_heatmap(StrMatrix(rows), contain_number)
    IN [chart |-> chart, name |-> y_legend, values |-> rows, x_legend |-> labels,
        status |-> drawn.status, texts |-> drawn.texts, font_size |-> drawn.font_size]

\* the per-row step with the row replaced before the quantitative chart is made
RowStepReplaceFirst ==
    /\ pc = "rows"
    /\ locals.i <= Len(locals.data)
    /\ LET line_name == locals.all_species[locals.i]
           cumulative == generate_cumulative_list(locals.data[locals.i], TRUE)
       IN /\ outputs' = outputs
                \o (IF params.quantitative_barchart
                    THEN << BarChart("quantitative_barchart", line_name, cumulative,
                                     locals.x_legend) >>
                    ELSE <<>>)
                \o (IF params.cumulative_barchart
                    THEN << BarChart("cumulative_barchart", line_name, cumulative,
                                     locals.x_legend) >>
                    ELSE <<>>)
          /\ locals' = [locals EXCEPT !.data[locals.i] = cumulative, !.i = @ + 1]
    /\ output_dir' = IF outputs' # <<>> THEN "filled" ELSE output_dir
    /\ UNCHANGED <<dict_of_number, pc, pre_fold, start, calls, nfolds, call, ret, params,
                   disk, exit_code, error>>

\* one iteration of "for i in range(0, len(data))" (lines 1062-1090)
RowStep ==
    /\ pc = "rows"
    /\ locals.i <= Len(locals.data)
    /\ LET line_name == locals.all_species[locals.i]
           quantitative == locals.data[locals.i]
           cumulative == generate_cumulative_list(quantitative, TRUE)
       IN /\ outputs' = outputs
                \o (IF params.quantitative_barchart
                    THEN << BarChart("quantitative_barchart", line_name, quantitative,
                                     locals.x_legend) >>
                    ELSE <<>>)
                \o (IF params.cumulative_barchart
                    THEN << BarChart("cumulative_barchart", line_name, cumulative,
                                     locals.x_legend) >>
                    ELSE <<>>)
          /\ locals' = [locals EXCEPT !.data[locals.i] = cumulative, !.i = @ + 1]
    /\ output_dir' = IF outputs' # <<>> THEN "filled" ELSE output_dir
    /\ UNCHANGED <<dict_of_number, pc, pre_fold, start, calls, nfolds, call, ret, params,
                   disk, exit_code, error>>

\* the heatmaps and main's return (lines 1092-1117); a heatmap that raises ends main
Heatmaps ==
    /\ pc = "rows"
    /\ locals.i > Len(locals.data)
    /\ LET charts ==
               (IF params.cumulative_heatmap
                THEN [k \in 1..Len(locals.data) |->
                         Heatmap("cumulative_heatmap", <<locals.all_species[k]>>,
                                 <<locals.data[k]>>, locals.x_legend, params.show_values)]
                ELSE <<>>)
               \o (IF params.global_heatmap
                   THEN << Heatmap("global_heatmap", locals.all_species, locals.data,
                                   locals.x_legend, params.show_values) >>
                   ELSE <<>>)
           failed == {k \in 1..Len(charts) : charts[k].status # "ok"}
       IN IF failed = {}
          THEN /\ outputs' = outputs \o charts
               /\ pc' = "done"
               /\ exit_code' = Some(0)
               /\ error' = error
          ELSE /\ outputs' = outputs \o SubSeq(charts, 1, MinOf(failed) - 1)
               /\ pc' = "raised"
               /\ exit_code' = exit_code
               /\ error' = charts[MinOf(failed)].status
    /\ output_dir' = IF outputs' # <<>> THEN "filled" ELSE output_dir
    /\ UNCHANGED <<dict_of_number, pre_fold, start, calls, nfolds, call, ret, params, disk,
                   locals>>

\* a call of make_heatmap on a matrix of one cell
InitHeat ==
    /\ dict_of_number = EmptyDict
    /\ pc = "cell"
    /\ pre_fold = EmptyDict
    /\ start = EmptyDict
    /\ calls = <<>>
    /\ nfolds = 0
    /\ \E value \in CellValues, contain_number \in ContainNumbers :
         call = [fn |-> "make_heatmap", data |-> << <<value>> >>,
                 contain_number |-> contain_number]
    /\ ret = NoRet
    /\ MainIdle

\* make_heatmap(data, contain_number=...)
HeatCall ==
    /\ pc = "cell"
    /\ ret' = make_heatmap(call.data, call.contain_number)
    /\ pc' = "drawn"
    /\ UNCHANGED <<dict_of_number, pre_fold, start, calls, nfolds, call>>
    /\ UNCHANGED mainvars

\* extract_data_from_table about to be called on a file with a header line
InitTable ==
    /\ dict_of_number = EmptyDict
    /\ pc = "table"
    /\ pre_fold = EmptyDict
    /\ start = EmptyDict
    /\ calls = <<>>
    /\ nfolds = 0
    /\ \E header \in Headers, lines \in TableBodies :
         call = [fn |-> "extract_data_from_table", header |-> header, lines |-> lines,
                 key |-> name_column, value |-> snp_column,
                 separator |-> file_separator]
    /\ ret = NoRet
    /\ MainIdle

\* the call of extract_data_from_table with legend None
TableCall ==
    /\ pc = "table"
    /\ ret' = ExtractWithLegend(call.header, call.lines, call.key, call.value,
                                call.separator)
    /\ pc' = "read"
    /\ UNCHANGED <<dict_of_number, pre_fold, start, calls, nfolds, call>>
    /\ UNCHANGED mainvars

\* the loading loop of main: tables are folded into an aggregate that starts empty
NextFold == FoldCall

FoldSpec == Init /\ [][NextFold]_vars

\* matrix builds of a given aggregate, called directly and through main
NextBuild == BuildCall \/ MainCall

BuildSpec == InitBuild /\ [][NextBuild]_vars

\* generate_cumulative_list applied to a row, and again to its result
NextCum == CumCall \/ CumAgain

CumSpec == InitCum /\ [][NextCum]_vars

\* make_heatmap called on a given cell
NextHeat == HeatCall

HeatSpec == InitHeat /\ [][NextHeat]_vars

\* extract_data_from_table called on a file whose first non-empty line is given
NextTable == TableCall

TableSpec == InitTable /\ [][NextTable]_vars

\* the reader and the fold on one file, as main's loading loop runs them
NextRead == LoadFile

ReadSpec == InitRead /\ [][NextRead]_vars

\* a run of main
NextMain == MainEnter \/ Answer \/ LoadFile \/ BuildMatrix \/ RowStep \/ Heatmaps

MainSpec == InitMain /\ [][NextMain]_vars

----------------------------------------------------------------------------
(* Properties of compile_gene_snp (checked under FoldSpec) *)

\* the number of genes d records for group s at count k, 0 when there is no entry
Occurrences(d, k, s) == IF k \in DOMAIN d /\ s \in DOMAIN d[k] THEN d[k][s] ELSE 0

\* a range of counts that holds every count a cell of the model converts to
Counts == 0..9

AllGroups == FoldGroups \cup BuildGroups

LastCall == calls[Len(calls)]

\* the number of entries of a table whose cell converts to k
GenesWith(genes_snp, k) ==
    Cardinality({i \in 1..Len(genes_snp) : PyInt(genes_snp[i]).val = k})

\* C1: after a fold call that returned, every entry of the call's group is the
\* previous entry (0 if absent) plus the number of genes of the table with that
\* count, every entry of another group is unchanged, and {g1: 3, g2: 3, g3: 5}
\* folded for "A" into the empty aggregate gives {3: {"A": 2}, 5: {"A": 1}}.
C1_FoldCounts ==
    (pc = "fold" /\ calls # <<>>) =>
        /\ DOMAIN dict_of_number \subseteq Counts
        /\ \A k \in DOMAIN dict_of_number : DOMAIN dict_of_number[k] \subseteq AllGroups
        /\ \A k \in Counts, s \in AllGroups :
             Occurrences(dict_of_number, k, s) =
                 Occurrences(pre_fold, k, s)
                 + (IF s = LastCall.group THEN GenesWith(LastCall.genes_snp, k) ELSE 0)
        /\ (pre_fold = EmptyDict /\ LastCall.group = "A"
                /\ LastCall.genes_snp = ExampleTable)
             => dict_of_number = (3 :> ("A" :> 2)) @@ (5 :> ("A" :> 1))

\* the example of C1 has been folded
C1_Witness ==
    /\ pc = "fold" /\ calls # <<>>
    /\ pre_fold = EmptyDict
    /\ LastCall.group = "A"
    /\ LastCall.genes_snp = ExampleTable
    /\ dict_of_number = (3 :> ("A" :> 2)) @@ (5 :> ("A" :> 1))

\* C2: the aggregate reached by folding two (group, table) pairs one after the
\* other equals the one obtained by folding them into the same starting aggregate
\* in the other order, also when both pairs have the same group.
C2_FoldOrder ==
    (pc = "fold" /\ Len(calls) = 2) =>
        dict_of_number =
            compile_gene_snp(calls[1].genes_snp,
                compile_gene_snp(calls[2].genes_snp, start, calls[2].group).dict,
                calls[1].group).dict

\* two different tables of the same group folded into a non-empty aggregate that
\* already counts genes of that group
C2_Witness ==
    /\ pc = "fold" /\ Len(calls) = 2
    /\ start # EmptyDict
    /\ calls[1].genes_snp # calls[2].genes_snp
    /\ calls[1].genes_snp # <<>> /\ calls[2].genes_snp # <<>>
    /\ calls[1].group = calls[2].group
    /\ \E k \in DOMAIN start : calls[1].group \in DOMAIN start[k]

\* C3: every stored occurrence count is >= 1 and every bucket is non-empty, after
\* every fold call, also one that raised on a cell int cannot convert.
C3_NoZeroStored ==
    \A k \in DOMAIN dict_of_number :
        /\ DOMAIN dict_of_number[k] # {}
        /\ \A s \in DOMAIN dict_of_number[k] : dict_of_number[k][s] >= 1

\* a fold call raised after it had counted a gene
C3_Witness ==
    /\ pc = "raised"
    /\ dict_of_number # pre_fold
    /\ \E i \in 1..Len(LastCall.genes_snp) : ~PyInt(LastCall.genes_snp[i]).ok

----------------------------------------------------------------------------
(* Properties of make_data_matrix (checked under BuildSpec) *)

\* a build was requested and returned a matrix
Built == pc = "built" /\ ret.status = "ok"

Elements(lst) == {lst[i] : i \in 1..Len(lst)}

IsAscending(lst) == \A i, j \in 1..Len(lst) : i < j => lst[i] < lst[j]

MaxOf(S) == CHOOSE m \in S : \A x \in S : x <= m

\* the counts of d that a limit of m columns keeps: the m smallest when m > 0 and
\* d has at least m counts, all of them otherwise
KeptCounts(d, m) ==
    IF m > 0 /\ Cardinality(DOMAIN d) >= m
    THEN {k \in DOMAIN d : Cardinality({j \in DOMAIN d : j < k}) < m}
    ELSE DOMAIN d

C6_RowWidth ==
    Built => \A r \in 1..Len(ret.data) : Len(ret.data[r]) = Len(ret.x_legend)

\* a dense build of an aggregate that has the count 0, a gap and a truncation
C6_Witness ==
    /\ Built /\ ~call.simplified
    /\ 0 \in DOMAIN dict_of_number
    /\ call.max_length.val > 0
    /\ Cardinality(DOMAIN dict_of_number) > call.max_length.val
    /\ ret.data # <<>>
    /\ Len(ret.x_legend) >= 2
    /\ \E k \in 1..Len(ret.x_legend) : k \notin DOMAIN dict_of_number

\* C7: a returned matrix has one row per element of the group list, row r holds
\* the entries of the r-th group at the returned labels, and a group with no entry
\* in the aggregate gets a row of zeros of the full width.
C7_RowOrder ==
    Built =>
        /\ Len(ret.data) = Len(call.groups)
        /\ \A r \in 1..Len(call.groups) :
             /\ \A j \in 1..Len(ret.x_legend) :
                  j \in DOMAIN ret.data[r] =>
                      ret.data[r][j] =
                          Occurrences(dict_of_number, ret.x_legend[j], call.groups[r])
             /\ (\A k \in DOMAIN dict_of_number : call.groups[r] \notin DOMAIN dict_of_number[k])
                  => ret.data[r] = Zeros(Len(ret.x_legend))

\* the group without data comes first and gets zeros, the other group's row follows
C7_Witness ==
    /\ Built
    /\ call.groups = <<"H", "E">>
    /\ \A k \in DOMAIN dict_of_number : "H" \notin DOMAIN dict_of_number[k]
    /\ Len(ret.x_legend) >= 2
    /\ ret.data[1] = Zeros(Len(ret.x_legend))
    /\ \E j \in 1..Len(ret.x_legend) : ret.data[2][j] > 0

\* the m-th smallest count of d is M
IsNthSmallest(d, m, M) ==
    M \in DOMAIN d /\ Cardinality({k \in DOMAIN d : k <= M}) = m

\* C8: with max_length = m > 0 and at least m distinct counts only the m smallest
\* counts are used (simplified: the labels are those m counts and every row has m
\* entries; dense: the labels end at the m-th smallest count); with fewer than m
\* counts nothing is dropped; the example with m = 2 gives labels [1,2].
C8_TruncationKeepsSmallest ==
    (Built /\ call.max_length.val > 0) =>
        LET m == call.max_length.val
            keys == DOMAIN dict_of_number
            labels == Elements(ret.x_legend)
        IN /\ (Cardinality(keys) >= m /\ call.simplified) =>
                /\ Len(ret.x_legend) = m
                /\ \A r \in 1..Len(ret.data) : Len(ret.data[r]) = m
                /\ labels \subseteq keys
                /\ \A k \in labels, dropped \in keys \ labels : k < dropped
           /\ (Cardinality(keys) >= m /\ ~call.simplified) =>
                IsNthSmallest(dict_of_number, m, Len(ret.x_legend))
           /\ (Cardinality(keys) < m /\ call.simplified) => labels = keys
           /\ (Cardinality(keys) < m /\ ~call.simplified) =>
                Len(ret.x_legend) = MaxOf(keys)
           /\ (dict_of_number = ExampleAggregate /\ call.simplified /\ m = 2
                    /\ call.groups = <<"E">>)
                => (ret.x_legend = <<1, 2>> /\ ret.data = << <<5, 3>> >>)

\* the example aggregate truncated to its two smallest counts
C8_Witness ==
    /\ Built /\ call.simplified
    /\ call.max_length.val = 2
    /\ dict_of_number = ExampleAggregate
    /\ call.groups = <<"E">>
    /\ ret.x_legend = <<1, 2>>
    /\ ret.data = << <<5, 3>> >>

\* C9: with max_length None or <= 0 the build completes and truncates nothing:
\* its result is the one a max_length above the number of counts gives.
C9_AbsentLimitIgnored ==
    (pc = "built" /\ call.groups # <<>>
        /\ (call.max_length.none \/ call.max_length.val <= 0)) =>
        ret = make_data_matrix(dict_of_number, call.groups, call.simplified,
                               Some(Cardinality(DOMAIN dict_of_number) + 1))

\* C10: make_data_matrix with an empty aggregate fails for both values of
\* simplified; it never returns a matrix.
C10_EmptyAggregateFails ==
    (pc = "built" /\ call.fn = "make_data_matrix" /\ dict_of_number = EmptyDict) =>
        ret.status # "ok"

----------------------------------------------------------------------------
(* Properties of generate_cumulative_list (checked under CumSpec) *)

\* lst[a] + ... + lst[b] (0 when a > b)
RECURSIVE SumRange(_, _, _)
SumRange(lst, a, b) == IF a > b THEN 0 ELSE lst[a] + SumRange(lst, a + 1, b)

\* a call of generate_cumulative_list has returned: call holds its arguments, ret its result
Summed == pc \in {"summed", "summed twice"}

\* C13: generate_cumulative_list returns a list as long as its input whose i-th
\* element is the sum of the input's elements 1..i (forward) or i..last
\* (reversed_); an empty input gives an empty list.
C13_RunningSums ==
    Summed =>
        LET row == call.list_of_numbers
            n == Len(row)
        IN /\ Len(ret.list) = n
           /\ row = <<>> => ret.list = <<>>
           /\ \A i \in 1..n :
                ret.list[i] = IF call.reversed_ THEN SumRange(row, i, n)
                              ELSE SumRange(row, 1, i)

C13_Witness ==
    /\ pc = "summed"
    /\ ~call.reversed_
    /\ call.list_of_numbers = <<1, 2, 0, 2>>
    /\ ret.list = <<1, 3, 3, 5>>

\* C14: on a non-empty row the last element of the forward list and the first
\* element of the reverse list are the sum of the row; the reverse accumulation
\* applied to its own result gives the same list only when every element after
\* the first is zero.
C14_Totals ==
    /\ (Summed /\ call.list_of_numbers # <<>>) =>
           LET row == call.list_of_numbers
               total == SumRange(row, 1, Len(row))
           IN IF call.reversed_ THEN ret.list[1] = total
              ELSE ret.list[Len(ret.list)] = total
    /\ (pc = "summed twice" /\ call.reversed_) =>
           LET once == call.list_of_numbers
           IN (ret.list = once) <=> (\A i \in 2..Len(once) : once[i] = 0)

C14_Witness ==
    /\ pc = "summed twice"
    /\ call.reversed_
    /\ call.list_of_numbers = <<3, 2>>
    /\ ret.list = <<5, 2>>
    /\ ret.list[1] = SumRange(call.list_of_numbers, 1, 2)

\* C15 as stated: the reverse cumulative list of [0, 5, 6, 1] is [12, 7, 1, 1].
C15_ExampleAsStated ==
    (pc = "summed" /\ call.reversed_ /\ call.list_of_numbers = ExampleRow)
        => ret.list = <<12, 7, 1, 1>>

\* C15: the reverse cumulative list of [0, 5, 6, 1] is
\* [0+5+6+1, 5+6+1, 6+1, 1] = [12, 12, 7, 1].
C15_Example ==
    (pc = "summed" /\ call.reversed_ /\ call.list_of_numbers = ExampleRow)
        => ret.list = <<12, 12, 7, 1>>

C15_Witness ==
    /\ pc = "summed"
    /\ call.reversed_
    /\ call.list_of_numbers = ExampleRow
    /\ ret.list = <<0 + 5 + 6 + 1, 5 + 6 + 1, 6 + 1, 1>>

----------------------------------------------------------------------------
(* Properties of main (checked under MainSpec) *)

\* main has ended: it returned or it raised
Ended == pc \in {"done", "raised"}

\* main accepted its parameters: max_length is an integer above 0 and show_values
\* an integer
ParametersAccepted == ~params.max_length.none /\ ~params.show_values.none

\* C11 as stated: when no input data was found (no input file was processed, or
\* the files that were processed contributed no qualifying line) main ends with
\* status 2.
C11_NoDataStatus2 ==
    (Ended /\ ParametersAccepted /\ exit_code # Some(1)
           /\ locals.todo = <<>> /\ dict_of_number = EmptyDict)
        => (pc = "done" /\ exit_code = Some(2))

\* a and b are the same letter, whatever their case
SameLetter(a, b) ==
    \/ a = b
    \/ {a, b} \in { {"y", "Y"}, {"e", "E"}, {"s", "S"}, {"t", "T"}, {"r", "R"}, {"u", "U"} }

\* answer is, whatever the case of its letters, a non-empty prefix of word
PrefixOf(answer, word) ==
    /\ Len(answer) \in 1..Len(word)
    /\ \A j \in 1..Len(answer) : SameLetter(answer[j], word[j])

\* y, ye, yes, t, tr, tru, true
SaysYes(answer) ==
    PrefixOf(answer, <<"y", "e", "s">>) \/ PrefixOf(answer, <<"t", "r", "u", "e">>)

\* no input file was read, no matrix built, no chart or export written
NothingDone ==
    /\ locals.all_species = <<>>
    /\ locals.files_dict = <<>>
    /\ dict_of_number = EmptyDict
    /\ call = NoCall
    /\ ret = NoRet
    /\ locals.data = <<>>
    /\ outputs = <<>>

\* C12: main asks for confirmation exactly when the output directory is not empty
\* and output_warning is on, and it asks before any input file is read.  An answer
\* that is not y, ye, yes, t, tr, tru or true (in any case) makes main return 1
\* with no input file read, no matrix built and nothing written; one of these
\* answers takes main to its loading loop in the state a run without prompt
\* enters it, and 1 is returned in no other way.
C12_ConfirmationGate ==
    [][ /\ (pc = "main" /\ pc' # "raised") =>
               /\ pc' = "input" <=> (output_dir = "filled" /\ params.output_warning)
               /\ pc' \in {"input", "load"}
               /\ NothingDone'
               /\ locals' = locals
        /\ pc = "input" =>
               /\ locals' = [locals EXCEPT !.r_ = locals'.r_]
               /\ UNCHANGED <<dict_of_number, call, ret, params, output_dir, disk,
                              outputs, error>>
               /\ IF SaysYes(locals'.r_)
                  THEN pc' = "load" /\ exit_code' = None
                  ELSE pc' = "done" /\ exit_code' = Some(1) /\ NothingDone'
        /\ (exit_code' = Some(1)) => pc = "input"
        /\ pc \in {"load", "rows"} => locals'.r_ = locals.r_
      ]_vars

C12_Witness ==
    /\ pc = "done"
    /\ exit_code = Some(1)
    /\ locals.r_ = <<"y", "e", "a", "h">>
    /\ locals.todo = <<"H", "E">>
    /\ output_dir = "filled"
    /\ NothingDone

\* the line of an input file that gives gene g its SNP count: the last one the
\* reader keeps (an integer above 0), 0 when there is none
KeptLines(lines, g) ==
    {k \in 1..Len(lines) : lines[k].gene = g /\ PyInt(lines[k].value).ok
                                             /\ PyInt(lines[k].value).val > 0}

SnpOf(lines, g) ==
    IF KeptLines(lines, g) = {} THEN 0
    ELSE PyInt(lines[MaxOf(KeptLines(lines, g))].value).val

GenesOf(lines) == {lines[k].gene : k \in 1..Len(lines)}

\* main returned 0: every row holds its reverse cumulative list
Completed == pc = "done" /\ exit_code = Some(0)

\* C16 as stated: once main has replaced a row by its reverse cumulative list, the
\* value under the column labelled n is the number of genes of that species with
\* at least n SNPs among the lines the reader accepted, in both modes and for
\* every max_length.
C16_AtLeastN ==
    Completed =>
        \A r \in 1..Len(locals.data) : \A j \in 1..Len(ret.x_legend) :
            LET lines == disk[locals.all_species[r]]
                n == ret.x_legend[j]
            IN locals.data[r][j]
                 = Cardinality({g \in GenesOf(lines) : SnpOf(lines, g) >= n})

\* the matrix build of main returned
MatrixBuilt == call.fn = "make_data_matrix" /\ ret.status = "ok"

IsDecimalOf(s, n) ==
    IsDigits(s) /\ DigitsVal(s) = n /\ (Len(s) > 1 => s[1] # "0")

\* C18: on the labels a build returns, "the length equals the last label" holds
\* exactly when the labels are 1, 2, ..., max; main then drops the labels (implicit
\* axis), and otherwise keeps them as strings, same values in the same order.
C18_ContinuityCheck ==
    (MatrixBuilt /\ pc \in {"rows", "done"}) =>
        LET labels == ret.x_legend
            n == Len(labels)
            contiguous == labels = [j \in 1..MaxOf(Elements(labels)) |-> j]
        IN /\ (n = labels[n]) <=> contiguous
           /\ locals.x_legend.none <=> contiguous
           /\ ~locals.x_legend.none =>
                 /\ Len(locals.x_legend.val) = n
                 /\ \A j \in 1..n : IsDecimalOf(locals.x_legend.val[j], labels[j])

C18_Witness ==
    /\ MatrixBuilt
    /\ pc = "rows"
    /\ ret.x_legend = <<1, 2, 4>>
    /\ ~locals.x_legend.none
    /\ locals.x_legend.val = << <<"1">>, <<"2">>, <<"4">> >>

\* the suffix sums of a row
SuffixSums(row) == [j \in 1..Len(row) |-> SumRange(row, j, Len(row))]

\* C20: the matrix build leaves the aggregate and the species list it was given
\* unchanged; the accumulation leaves the row it was given unchanged (a chart
\* already rendered from it keeps its values); once built, the matrix changes only
\* by main replacing one whole row by its reverse cumulative list.
C20_Frame ==
    [][ /\ (pc = "load" /\ locals.todo = <<>>) =>
               /\ dict_of_number' = dict_of_number
               /\ call'.fn = "make_data_matrix" =>
                      /\ locals'.all_species = call'.groups
                      /\ ret'.status = "ok" => locals'.data = ret'.data
        /\ pc = "rows" =>
               /\ UNCHANGED <<dict_of_number, call, ret>>
               /\ locals'.all_species = locals.all_species
               /\ SubSeq(outputs', 1, Len(outputs)) = outputs
               /\ \/ locals'.data = locals.data
                  \/ \E r \in 1..Len(locals.data) :
                        locals'.data = [locals.data EXCEPT ![r] = SuffixSums(locals.data[r])]
               /\ \A k \in (Len(outputs) + 1)..Len(outputs') :
                     outputs'[k].chart = "quantitative_barchart"
                         => outputs'[k].values = ret.data[locals.i]
      ]_vars

C20_Witness ==
    /\ pc = "rows"
    /\ locals.i = 2
    /\ Len(locals.data) = 2
    /\ ret.data[1] = <<1, 1, 1>>
    /\ locals.data[1] = <<3, 2, 1>>
    /\ locals.data[2] = ret.data[2]
    /\ outputs # <<>>

----------------------------------------------------------------------------
(* Properties of the reader (checked under ReadSpec) *)

\* the loading loop has gone through the file
FileRead == locals.todo = <<>>

\* C19: the reader keeps a line only if its SNP value parses as an integer above
\* 0; the other lines contribute nothing and do not abort the read.  Every key of
\* the aggregate is therefore at least 1, the fold does not raise, and the
\* aggregate counts each gene once, under the value of its last kept line.
C19_ReaderFilter ==
    FileRead =>
        LET lines == disk["E"]
            table == locals.files_dict
        IN /\ pc = "load" /\ error = ""
           /\ \A j \in 1..Len(table) :
                 /\ PyInt(table[j].value).ok
                 /\ PyInt(table[j].value).val = SnpOf(lines, table[j].gene)
           /\ \A g \in GenesOf(lines) :
                 (SnpOf(lines, g) > 0) <=> (\E j \in 1..Len(table) : table[j].gene = g)
           /\ \A j, k \in 1..Len(table) : table[j].gene = table[k].gene => j = k
           /\ \A n \in DOMAIN dict_of_number : n >= 1
           /\ \A n \in 0..9 :
                 Occurrences(dict_of_number, n, "E")
                   = IF n = 0 THEN 0
                     ELSE Cardinality({g \in GenesOf(lines) : SnpOf(lines, g) = n})

C19_Witness ==
    /\ FileRead
    /\ disk["E"] = << Line("g1", <<"0">>), Line("g2", <<"2", "\n">>) >>
    /\ locals.files_dict = << Line("g2", <<"2", "\n">>) >>
    /\ dict_of_number = (2 :> ("E" :> 1))

----------------------------------------------------------------------------
(* The docstring example of make_data_matrix (checked under BuildSpec) *)

\* C24 as stated: a simplified build returns no column that is 0 for every
\* requested group; with the docstring's compiled_dict and only "E. coli" ("E")
\* requested it returns ([[5, 3, 1]], [1, 2, 4]).
C24_UnrepresentedCountsDeleted ==
    (Built /\ call.fn = "make_data_matrix" /\ call.simplified) =>
        /\ \A j \in 1..Len(ret.x_legend) :
              \E r \in 1..Len(ret.data) : ret.data[r][j] > 0
        /\ (dict_of_number = DocAggregate /\ call.groups = <<"E">>) =>
              (ret.data = << <<5, 3, 1>> >> /\ ret.x_legend = <<1, 2, 4>>)

----------------------------------------------------------------------------
(* Properties of the heatmap's cell texts (checked under HeatSpec) *)

\* make_heatmap was called with the overlay enabled and has ended
Drawn == pc = "drawn" /\ ~call.contain_number.none

\* the value of the only cell, as its digits
CellValue == call.data[1][1]

\* the value rounded to 3 significant digits, as its digits
Rounded(value) == RoundDigits(value, IF Len(value) > 3 THEN Len(value) - 3 ELSE 0)

\* the suffix of a number of n digits: none below 4 digits, then k, M, G, T, P
\* for each further group of 3 digits
Suffix(n) == IF n <= 3 THEN <<>> ELSE << <<"k", "M", "G", "T", "P">>[(n - 1) \div 3] >>

\* the text of a number given by its digits, rounded already: as many digits
\* before the comma as the number has beyond its last complete group of 3, 3
\* digits in all, a line break, the suffix; in full below 4 digits
TextOf(digits) ==
    LET n == Len(digits)
        before == ((n - 1) % 3) + 1
    IN IF n <= 3 THEN digits \o <<"\n">>
       ELSE SubSeq(digits, 1, before)
            \o (IF before < 3 THEN <<",">> \o SubSeq(digits, before + 1, 3) ELSE <<>>)
            \o <<"\n">> \o Suffix(n)

\* C21 as stated: the text of a cell is its value rounded to 3 significant digits
\* with the unit of the rounded value's magnitude, also when the rounding carries
\* into a new digit; a value below 4 digits is written in full without unit.
C21_OverlayText ==
    (Drawn /\ ret.status = "ok") => ret.texts[1] = TextOf(Rounded(CellValue))

\* the value is below 1000 P: at most 18 digits
Fits(value) == Len(value) <= 18

\* C22 as stated: with the overlay enabled a value too large for the unit P makes
\* make_heatmap raise ValueError and nothing else; every value that fits is
\* written without error.
C22_OverlayOverflow ==
    Drawn => ret.status = IF Fits(CellValue) THEN "ok" ELSE "ValueError"

----------------------------------------------------------------------------
(* Properties of main's charts (checked under MainSpec) *)

\* the heatmaps among the charts rendered so far
HeatmapsDrawn ==
    {k \in 1..Len(outputs) : outputs[k].chart \in {"cumulative_heatmap", "global_heatmap"}}

\* the number of cells of a rendered chart
CellCount(chart) == Len(chart.values) * Len(chart.values[1])

\* C23 as stated: with show_values None main runs to completion and no heatmap
\* cell gets a text; otherwise every cell of every heatmap gets its text, in the
\* size given when show_values is above 0 and in an automatic size when it is not.
C23_ShowValues ==
    /\ (Ended /\ params.show_values.none /\ ~params.max_length.none) =>
           /\ pc = "done"
           /\ \A k \in HeatmapsDrawn : outputs[k].texts = <<>>
    /\ (Completed /\ ~params.show_values.none) =>
           \A k \in HeatmapsDrawn :
               /\ Len(outputs[k].texts) = CellCount(outputs[k])
               /\ ~outputs[k].font_size.none
               /\ params.show_values.val > 0
                      => outputs[k].font_size = params.show_values

\* what a chart shows: its kind, the species it is labelled with, its values
Shown(chart) == [chart |-> chart.chart, name |-> chart.name, values |-> chart.values]

\* the bar charts of the rows r..last, in order: for each row the quantitative
\* chart of the row as built, then the cumulative chart of its suffix sums
RECURSIVE BarsOf(_, _)
BarsOf(r, last) ==
    IF r > last THEN <<>>
    ELSE (IF params.quantitative_barchart
          THEN << [chart |-> "quantitative_barchart", name |-> call.groups[r],
                   values |-> ret.data[r]] >>
          ELSE <<>>)
         \o (IF params.cumulative_barchart
             THEN << [chart |-> "cumulative_barchart", name |-> call.groups[r],
                      values |-> SuffixSums(ret.data[r])] >>
             ELSE <<>>)
         \o BarsOf(r + 1, last)

\* the heatmaps: one per species in order, then the global one, all of suffix sums
HeatmapsOf ==
    LET transformed == [r \in 1..Len(ret.data) |-> SuffixSums(ret.data[r])]
    IN (IF params.cumulative_heatmap
        THEN [r \in 1..Len(ret.data) |->
                 [chart |-> "cumulative_heatmap", name |-> <<call.groups[r]>>,
                  values |-> <<transformed[r]>>]]
        ELSE <<>>)
       \o (IF params.global_heatmap
           THEN << [chart |-> "global_heatmap", name |-> call.groups,
                    values |-> transformed] >>
           ELSE <<>>)

\* C26: after main has gone through the rows before i, the charts rendered are,
\* in species order, each row's quantitative bar chart (when enabled) of the row
\* as built and its cumulative bar chart (when enabled) of the row's suffix sums,
\* each labelled with the species of the row; every row before i has been
\* replaced by its suffix sums, once, whatever charts are enabled, and the rows
\* from i on are as built; at the end the per-species heatmaps and the global
\* heatmap follow, all of the transformed rows.
C26_RenderingOrder ==
    (pc = "rows" \/ Completed) =>
        LET rows_done == locals.i - 1
        IN /\ locals.all_species = call.groups
           /\ Len(locals.data) = Len(ret.data)
           /\ \A r \in 1..Len(ret.data) :
                 locals.data[r] = IF r <= rows_done THEN SuffixSums(ret.data[r])
                                  ELSE ret.data[r]
           /\ Completed => rows_done = Len(ret.data)
           /\ [k \in 1..Len(outputs) |-> Shown(outputs[k])]
                = BarsOf(1, rows_done) \o (IF Completed THEN HeatmapsOf ELSE <<>>)

C26_Witness ==
    /\ Completed
    /\ locals.all_species = <<"E", "H">>
    /\ params.quantitative_barchart /\ params.cumulative_heatmap
    /\ Len(outputs) = 7
    /\ ret.data[1] = <<1, 1, 1>>
    /\ outputs[1].values = <<1, 1, 1>>
    /\ outputs[2].values = <<3, 2, 1>>
    /\ outputs[7].values[1] = <<3, 2, 1>>

\* a line without the newline that ends it
WithoutNewline(line) ==
    IF line # <<>> /\ line[Len(line)] = "\n" THEN SubSeq(line, 1, Len(line) - 1)
    ELSE line

\* name is one of the columns of the header line: it stands between two
\* separators, or between a separator and an end of the line
IsColumn(name, line) ==
    LET header == WithoutNewline(line)
    IN \E a \in 1..(Len(header) + 1) :
          LET b == a + Len(name) - 1
          IN /\ b <= Len(header)
             /\ SubSeq(header, a, b) = name
             /\ a = 1 \/ header[a - 1] = file_separator
             /\ b = Len(header) \/ header[b + 1] = file_separator

TableRead == pc = "read" /\ call.fn = "extract_data_from_table"

\* C25: a file whose header line names the key and the value column, wherever
\* in the line and also in the last column of a line ended by a newline, is
\* read without error; ValueError is raised only when the key or the value is
\* not the name of a column.
C25_HeaderLookup ==
    TableRead =>
        LET named == /\ IsColumn(call.key, call.header)
                     /\ IsColumn(call.value, call.header)
        IN /\ named => ret.status = "ok"
           /\ ret.status = "ValueError" => ~named

====
